---- MODULE Spec2Model ----
(***************************************************************************)
(* Model of the 3D Pixar Style Image Generator front-end:                  *)
(*   - generatePixarImages, the wrapper around ai.models.generateImages    *)
(*     (services/geminiService), with its error classification;            *)
(*   - the App component's state and its handlers handleSubmit and         *)
(*     handleGenerateVariations, with the enabling conditions the render   *)
(*     code puts on the form controls.                                     *)
(* Texts are TLA+ strings; Len, \o and SubSeq act on them as on sequences  *)
(* of characters.                                                          *)
(***************************************************************************)
EXTENDS Integers, Sequences, FiniteSets, TLC

VARIABLES
  prompt,                     \* useState<string>('')
  imageUrl,                   \* useState<string | null>(null)
  variations,                 \* useState<string[]>([])
  isLoading,                  \* useState<boolean>(false)
  isGeneratingVariations,     \* useState<boolean>(false)
  error,                      \* useState<string | null>(null)
  variationError,             \* useState<string | null>(null)
  aspectRatio,                \* useState<AspectRatio>('16:9')
  generatedImageAspectRatio,  \* useState<AspectRatio>('16:9')
  pending,                    \* generatePixarImages calls awaiting the remote answer
  issued,                     \* number of ai.models.generateImages calls made so far
  accepted,                   \* number of handler runs that passed their guard
  imageFrom,                  \* history: the request whose answer is held in imageUrl
  variationsFrom,             \* history: the request whose answer is held in variations
  lastEvent                   \* history: the handler step taken last

vars == <<prompt, imageUrl, variations, isLoading, isGeneratingVariations,
          error, variationError, aspectRatio, generatedImageAspectRatio,
          pending, issued, accepted, imageFrom, variationsFrom, lastEvent>>

-----------------------------------------------------------------------------
(* Bounds of the model *)

\* number of outbound calls after which the user stops acting
MaxCalls == 3
\* number of fragments an error text of the remote service is made of
MaxFragments == 2

-----------------------------------------------------------------------------
(* Text helpers: String.prototype.trim, toLowerCase, includes *)

IsWhitespace(c) == c \in {" ", "\t", "\n", "\r"}

RECURSIVE Trim(_)
Trim(s) ==
  IF Len(s) = 0 THEN s
  ELSE IF IsWhitespace(SubSeq(s, 1, 1)) THEN Trim(SubSeq(s, 2, Len(s)))
  ELSE IF IsWhitespace(SubSeq(s, Len(s), Len(s))) THEN Trim(SubSeq(s, 1, Len(s) - 1))
  ELSE s

UpperLetters == "ABCDEFGHIJKLMNOPQRSTUVWXYZ"
LowerLetters == "abcdefghijklmnopqrstuvwxyz"

LowerChar(c) ==
  IF \E i \in 1..Len(UpperLetters) : SubSeq(UpperLetters, i, i) = c
  THEN LET i == CHOOSE j \in 1..Len(UpperLetters) : SubSeq(UpperLetters, j, j) = c
       IN  SubSeq(LowerLetters, i, i)
  ELSE c

RECURSIVE ToLowerCase(_)
ToLowerCase(s) ==
  IF Len(s) = 0 THEN s
  ELSE LowerChar(SubSeq(s, 1, 1)) \o ToLowerCase(SubSeq(s, 2, Len(s)))

Includes(s, p) ==
  \E i \in 1..(Len(s) - Len(p) + 1) : SubSeq(s, i, i + Len(p) - 1) = p

-----------------------------------------------------------------------------
(* services/geminiService: generatePixarImages *)

AspectRatios == {"16:9", "1:1", "9:16"}

PromptPrefix == "A cinematic, 3D Pixar-style render of: \""
PromptSuffix == "\". Emphasize cinematic lighting, a vibrant color palette, and high detail to capture the signature look of a modern animated film. Ultra-detailed, sharp focus, movie-quality."

fullPrompt(userPrompt) == PromptPrefix \o userPrompt \o PromptSuffix

\* the argument of ai.models.generateImages
generateImagesCall(userPrompt, ratio, numberOfImages) ==
  [ model          |-> "imagen-4.0-generate-001",
    prompt         |-> fullPrompt(userPrompt),
    numberOfImages |-> numberOfImages,
    outputMimeType |-> "image/jpeg",
    aspectRatio    |-> ratio ]

GenericMessage == "An unexpected error occurred while generating the image. Please try again."
ApiKeyMessage == "API Key Issue: Please verify that your API key is correct and has the necessary permissions enabled in your Google AI Studio dashboard."
QuotaMessage == "Usage Limit Reached: You have exceeded your API quota. Please check your billing status or wait until your quota renews."
BlockedMessage == "Prompt Blocked: Your prompt may contain sensitive content. Please try rephrasing your request to be more general and safe for all audiences."
NetworkMessage == "Network Problem: We couldn't connect to the image generation service. Please check your internet connection and try again."

NoImagesText == "The API did not return any images."
\* the TypeError of reading imageBytes of a descriptor that has no image
NoImageFieldText == "Cannot read properties of undefined (reading 'imageBytes')"

\* a thrown value: an Error with a message, or something that is no Error
ThrownError(text) == [isError |-> TRUE, message |-> text]
ThrownOther == [isError |-> FALSE, message |-> ""]

\* the catch block's choice of friendlyMessage for the value caught
friendlyMessage_skipLowerCase(thrown) ==
  IF thrown.isError
  THEN LET message == thrown.message
       IN  IF Includes(message, "api key not valid") \/ Includes(message, "permission denied")
           THEN ApiKeyMessage
           ELSE IF Includes(message, "quota")
           THEN QuotaMessage
           ELSE IF Includes(message, "safety policy") \/ Includes(message, "blocked")
           THEN BlockedMessage
           ELSE IF Includes(message, "network error") \/ Includes(message, "failed to fetch")
           THEN NetworkMessage
           ELSE GenericMessage
  ELSE GenericMessage

friendlyMessage(thrown) ==
  IF thrown.isError
  THEN LET message == ToLowerCase(thrown.message)
       IN  IF Includes(message, "api key not valid") \/ Includes(message, "permission denied")
           THEN ApiKeyMessage
           ELSE IF Includes(message, "quota")
           THEN QuotaMessage
           ELSE IF Includes(message, "safety policy") \/ Includes(message, "blocked")
           THEN BlockedMessage
           ELSE IF Includes(message, "network error") \/ Includes(message, "failed to fetch")
           THEN NetworkMessage
           ELSE GenericMessage
  ELSE GenericMessage

\* What the remote call does: it throws, or it answers with a response whose
\* generatedImages is absent or a list of descriptors; a descriptor carries
\* image.imageBytes or has no image.
RemoteThrows(thrown) ==
  [kind |-> "throws", thrown |-> thrown, hasGeneratedImages |-> FALSE, generatedImages |-> <<>>]
RemoteResponse(has, imgs) ==
  [kind |-> "response", thrown |-> ThrownOther, hasGeneratedImages |-> has, generatedImages |-> imgs]

Descriptor(bytes) == [hasImage |-> TRUE, imageBytes |-> bytes]
NoImageDescriptor == [hasImage |-> FALSE, imageBytes |-> ""]

\* the try block: the value it returns, or the value thrown inside it
tryBlock_returnsEmpty(remote) ==
  IF remote.kind = "throws"
  THEN [threw |-> TRUE, thrown |-> remote.thrown, value |-> <<>>]
  ELSE IF \E i \in 1..Len(remote.generatedImages) : ~remote.generatedImages[i].hasImage
  THEN [threw |-> TRUE, thrown |-> ThrownError(NoImageFieldText), value |-> <<>>]
  ELSE [threw |-> FALSE, thrown |-> ThrownOther,
        value |-> [i \in 1..Len(remote.generatedImages) |->
                     remote.generatedImages[i].imageBytes]]

tryBlock(remote) ==
  IF remote.kind = "throws"
  THEN [threw |-> TRUE, thrown |-> remote.thrown, value |-> <<>>]
  ELSE IF ~remote.hasGeneratedImages \/ Len(remote.generatedImages) = 0
  THEN [threw |-> TRUE, thrown |-> ThrownError(NoImagesText), value |-> <<>>]
  ELSE IF \E i \in 1..Len(remote.generatedImages) : ~remote.generatedImages[i].hasImage
  THEN [threw |-> TRUE, thrown |-> ThrownError(NoImageFieldText), value |-> <<>>]
  ELSE [threw |-> FALSE, thrown |-> ThrownOther,
        value |-> [i \in 1..Len(remote.generatedImages) |->
                     remote.generatedImages[i].imageBytes]]

\* the outcome of generatePixarImages for an answer of the remote call:
\* the list returned, or the Error raised by the catch block
generatePixarImages(remote) ==
  LET t == tryBlock(remote)
  IN  IF t.threw
      THEN [ok |-> FALSE, images |-> <<>>, thrown |-> ThrownError(friendlyMessage(t.thrown))]
      ELSE [ok |-> TRUE, images |-> t.value, thrown |-> ThrownOther]

-----------------------------------------------------------------------------
(* The answers the remote service may give *)

\* pieces of the error texts of the remote service, in the letter case it uses
ErrorFragments ==
  { "API key not valid", "Permission Denied", "PERMISSION_DENIED", "Quota",
    "Safety Policy", "Blocked", "Network Error", "Failed to fetch", "oops" }

\* the error texts made of at most n fragments
RECURSIVE ErrorTexts(_)
ErrorTexts(n) ==
  IF n = 0 THEN {""}
  ELSE LET shorter == ErrorTexts(n - 1)
       IN  shorter \cup {IF t = "" THEN f ELSE t \o " " \o f : t \in shorter, f \in ErrorFragments}

ImageBytes == {"", "a"}

Descriptors == {NoImageDescriptor} \cup {Descriptor(b) : b \in ImageBytes}

\* the lists of at most n descriptors
DescriptorLists(n) == UNION {[1..k -> Descriptors] : k \in 0..n}

\* the answers to a call that asked for numberOfImages images, with error
\* texts of at most n fragments
RemoteAnswers(n, numberOfImages) ==
  {RemoteThrows(ThrownError(t)) : t \in ErrorTexts(n)}
    \cup {RemoteThrows(ThrownOther)}
    \cup {RemoteResponse(FALSE, <<>>)}
    \cup {RemoteResponse(TRUE, l) : l \in DescriptorLists(numberOfImages)}

-----------------------------------------------------------------------------
(* App.tsx: the component's state and handlers *)

Null == "<null>"

SubmitImages == 1
VariationImages == 3

DataUrlPrefix == "data:image/jpeg;base64,"
dataUrl(bytes) == DataUrlPrefix \o bytes

InvalidImageText == "API did not return a valid image."
SubmitFallbackText == "An unexpected error occurred. Please try again."
VariationsFallbackText == "An unexpected error occurred while generating variations."

\* the texts the user types into the prompt input
Prompts == {"", "  ", "cat", " dog "}

\* a generatePixarImages call in flight, as its handler's closure holds it
Request(id, handler, userPrompt, ratio, numberOfImages) ==
  [ id         |-> id,
    handler    |-> handler,
    userPrompt |-> userPrompt,
    call       |-> generateImagesCall(userPrompt, ratio, numberOfImages) ]

NoRequest == Request(0, "none", "", "16:9", 0)

PendingOf(handler) == {r \in pending : r.handler = handler}

AnswersToSubmit == RemoteAnswers(1, SubmitImages)
AnswersToVariations == RemoteAnswers(1, VariationImages)
\* the answers the wrapper is applied to on its own
AnswersToWrapper == RemoteAnswers(MaxFragments, VariationImages)

\* generatePixarImages, evaluated once for each answer
wrapperResult ==
  [remote \in AnswersToSubmit \cup AnswersToVariations \cup AnswersToWrapper |->
     generatePixarImages(remote)]

Init ==
  /\ prompt = ""
  /\ imageUrl = Null
  /\ variations = <<>>
  /\ isLoading = FALSE
  /\ isGeneratingVariations = FALSE
  /\ error = Null
  /\ variationError = Null
  /\ aspectRatio = "16:9"
  /\ generatedImageAspectRatio = "16:9"
  /\ pending = {}
  /\ issued = 0
  /\ accepted = 0
  /\ imageFrom = NoRequest
  /\ variationsFrom = NoRequest
  /\ lastEvent = [op |-> "init"]

\* onChange of the prompt input, which is disabled while isLoading
setPrompt(p) ==
  /\ ~isLoading
  /\ prompt' = p
  /\ lastEvent' = [op |-> "setPrompt"]
  /\ UNCHANGED <<imageUrl, variations, isLoading, isGeneratingVariations, error,
                 variationError, aspectRatio, generatedImageAspectRatio,
                 pending, issued, accepted, imageFrom, variationsFrom>>

\* onClick of an aspect-ratio button, which is disabled while isLoading
setAspectRatio(ratio) ==
  /\ ~isLoading
  /\ aspectRatio' = ratio
  /\ lastEvent' = [op |-> "setAspectRatio"]
  /\ UNCHANGED <<prompt, imageUrl, variations, isLoading, isGeneratingVariations, error,
                 variationError, generatedImageAspectRatio,
                 pending, issued, accepted, imageFrom, variationsFrom>>

\* a variant of handleSubmit without its guard
handleSubmit_noGuard ==
  /\ issued < MaxCalls
  /\ isLoading' = TRUE
  /\ error' = Null
  /\ imageUrl' = Null
  /\ variations' = <<>>
  /\ variationError' = Null
  /\ issued' = issued + 1
  /\ accepted' = accepted + 1
  /\ pending' = pending \cup
       {Request(issued + 1, "handleSubmit", prompt, aspectRatio, SubmitImages)}
  /\ imageFrom' = NoRequest
  /\ variationsFrom' = NoRequest
  /\ lastEvent' = [op |-> "handleSubmit", accepted |-> TRUE]
  /\ UNCHANGED <<prompt, isGeneratingVariations, aspectRatio, generatedImageAspectRatio>>

\* handleSubmit up to its await
handleSubmit ==
  /\ issued < MaxCalls
  /\ IF Trim(prompt) = "" \/ isLoading
     THEN /\ lastEvent' = [op |-> "handleSubmit", accepted |-> FALSE]
          /\ UNCHANGED <<prompt, imageUrl, variations, isLoading, isGeneratingVariations,
                         error, variationError, aspectRatio, generatedImageAspectRatio,
                         pending, issued, accepted, imageFrom, variationsFrom>>
     ELSE /\ isLoading' = TRUE
          /\ error' = Null
          /\ imageUrl' = Null
          /\ variations' = <<>>
          /\ variationError' = Null
          /\ issued' = issued + 1
          /\ accepted' = accepted + 1
          /\ pending' = pending \cup
               {Request(issued + 1, "handleSubmit", prompt, aspectRatio, SubmitImages)}
          /\ imageFrom' = NoRequest
          /\ variationsFrom' = NoRequest
          /\ lastEvent' = [op |-> "handleSubmit", accepted |-> TRUE]
          /\ UNCHANGED <<prompt, isGeneratingVariations, aspectRatio,
                         generatedImageAspectRatio>>

\* handleGenerateVariations up to its await
handleGenerateVariations ==
  /\ issued < MaxCalls
  /\ IF Trim(prompt) = "" \/ isLoading \/ isGeneratingVariations
     THEN /\ lastEvent' = [op |-> "handleGenerateVariations", accepted |-> FALSE]
          /\ UNCHANGED <<prompt, imageUrl, variations, isLoading, isGeneratingVariations,
                         error, variationError, aspectRatio, generatedImageAspectRatio,
                         pending, issued, accepted, imageFrom, variationsFrom>>
     ELSE /\ isGeneratingVariations' = TRUE
          /\ variationError' = Null
          /\ variations' = <<>>
          /\ issued' = issued + 1
          /\ accepted' = accepted + 1
          /\ pending' = pending \cup
               {Request(issued + 1, "handleGenerateVariations", prompt,
                        generatedImageAspectRatio, VariationImages)}
          /\ variationsFrom' = NoRequest
          /\ lastEvent' = [op |-> "handleGenerateVariations", accepted |-> TRUE]
          /\ UNCHANGED <<prompt, imageUrl, isLoading, error, aspectRatio,
                         generatedImageAspectRatio, imageFrom>>

-----------------------------------------------------------------------------
(* App.tsx: the handlers after their await *)

\* handleSubmit's try block after the await: the image taken from the
\* destructured result, or the value thrown
submitTry(res) ==
  IF ~res.ok
  THEN [threw |-> TRUE, thrown |-> res.thrown, image |-> ""]
  ELSE IF Len(res.images) > 0 /\ res.images[1] # ""
  THEN [threw |-> FALSE, thrown |-> ThrownOther, image |-> res.images[1]]
  ELSE [threw |-> TRUE, thrown |-> ThrownError(InvalidImageText), image |-> ""]

\* the catch blocks' argument of setError and of setVariationError
submitErrorText_fallbackOnly(thrown) == SubmitFallbackText

submitErrorText(thrown) ==
  IF thrown.isError THEN thrown.message ELSE SubmitFallbackText

variationErrorText(thrown) ==
  IF thrown.isError THEN thrown.message ELSE VariationsFallbackText

\* the finally blocks: the loading flag after the handler ends
loadingAfter_successOnly(threw) == threw

loadingAfter(threw) == FALSE

\* variationImages.map(img => `data:image/jpeg;base64,${img}`)
variationUrls_reversed(images) ==
  [i \in 1..Len(images) |-> dataUrl(images[Len(images) + 1 - i])]

variationUrls(images) == [i \in 1..Len(images) |-> dataUrl(images[i])]

\* the rest of handleSubmit once the call r is answered
settleSubmit(r, remote) ==
  LET res == wrapperResult[remote]
      t   == submitTry(res)
  IN  /\ r \in PendingOf("handleSubmit")
      /\ pending' = pending \ {r}
      /\ IF t.threw
         THEN /\ error' = submitErrorText(t.thrown)
              /\ UNCHANGED <<imageUrl, generatedImageAspectRatio, imageFrom>>
         ELSE /\ imageUrl' = dataUrl(t.image)
              /\ generatedImageAspectRatio' = r.call.aspectRatio
              /\ imageFrom' = r
              /\ UNCHANGED error
      /\ isLoading' = loadingAfter(t.threw)
      /\ lastEvent' = [op |-> "settled", request |-> r, result |-> res]
      /\ UNCHANGED <<prompt, variations, isGeneratingVariations, variationError,
                     aspectRatio, issued, accepted, variationsFrom>>

\* a variant of settleVariations that calls again when the call failed
settleVariations_retry(r, remote) ==
  LET res == wrapperResult[remote]
  IN  /\ r \in PendingOf("handleGenerateVariations")
      /\ IF res.ok
         THEN /\ variations' = variationUrls(res.images)
              /\ variationsFrom' = r
              /\ pending' = pending \ {r}
              /\ isGeneratingVariations' = FALSE
              /\ UNCHANGED <<variationError, issued>>
         ELSE /\ variationError' = variationErrorText(res.thrown)
              /\ pending' = (pending \ {r}) \cup
                   {Request(issued + 1, r.handler, r.userPrompt, r.call.aspectRatio,
                            r.call.numberOfImages)}
              /\ issued' = issued + 1
              /\ UNCHANGED <<variations, variationsFrom, isGeneratingVariations>>
      /\ lastEvent' = [op |-> "settled", request |-> r, result |-> res]
      /\ UNCHANGED <<prompt, imageUrl, isLoading, error, aspectRatio,
                     generatedImageAspectRatio, accepted, imageFrom>>

\* the rest of handleGenerateVariations once the call r is answered
settleVariations(r, remote) ==
  LET res == wrapperResult[remote]
  IN  /\ r \in PendingOf("handleGenerateVariations")
      /\ pending' = pending \ {r}
      /\ IF res.ok
         THEN /\ variations' = variationUrls(res.images)
              /\ variationsFrom' = r
              /\ UNCHANGED variationError
         ELSE /\ variationError' = variationErrorText(res.thrown)
              /\ UNCHANGED <<variations, variationsFrom>>
      /\ isGeneratingVariations' = loadingAfter(~res.ok)
      /\ lastEvent' = [op |-> "settled", request |-> r, result |-> res]
      /\ UNCHANGED <<prompt, imageUrl, isLoading, error, aspectRatio,
                     generatedImageAspectRatio, issued, accepted, imageFrom>>

-----------------------------------------------------------------------------
(* The user and the remote service *)

\* the submit button is disabled while isLoading or while the prompt is blank
SubmitForm ==
  /\ ~(isLoading \/ Trim(prompt) = "")
  /\ handleSubmit

\* the Generate Variations button is rendered with the image, once loading
\* ended, and is disabled while isGeneratingVariations
ClickGenerateVariations ==
  /\ imageUrl # Null /\ ~isLoading
  /\ ~isGeneratingVariations
  /\ handleGenerateVariations

EditPrompt == \E p \in Prompts : setPrompt(p)

ClickAspectRatio == \E ratio \in AspectRatios : setAspectRatio(ratio)

SubmitAnswered ==
  \E r \in PendingOf("handleSubmit") : \E remote \in AnswersToSubmit :
    settleSubmit(r, remote)

VariationsAnswered ==
  \E r \in PendingOf("handleGenerateVariations") : \E remote \in AnswersToVariations :
    settleVariations(r, remote)

Next ==
  \/ EditPrompt
  \/ ClickAspectRatio
  \/ SubmitForm
  \/ ClickGenerateVariations
  \/ SubmitAnswered
  \/ VariationsAnswered

Spec == Init /\ [][Next]_vars

\* the remote service eventually answers or fails each call
FairSpec == Spec /\ WF_vars(SubmitAnswered) /\ WF_vars(VariationsAnswered)

\* the handlers run in any state, whatever the form controls allow
NextHandlers ==
  \/ EditPrompt
  \/ ClickAspectRatio
  \/ handleSubmit
  \/ handleGenerateVariations
  \/ SubmitAnswered
  \/ VariationsAnswered

HandlerSpec == Init /\ [][NextHandlers]_vars

\* generatePixarImages on its own, applied to each answer of the remote call
applyGeneratePixarImages ==
  \E remote \in AnswersToWrapper :
    /\ lastEvent' = [op |-> "generatePixarImages", remote |-> remote,
                     result |-> wrapperResult[remote]]
    /\ UNCHANGED <<prompt, imageUrl, variations, isLoading, isGeneratingVariations,
                   error, variationError, aspectRatio, generatedImageAspectRatio,
                   pending, issued, accepted, imageFrom, variationsFrom>>

WrapperSpec == Init /\ [][applyGeneratePixarImages]_vars

-----------------------------------------------------------------------------
(* Properties *)

Settled(handler) == lastEvent.op = "settled" /\ lastEvent.request.handler = handler

\* C1: at most one generatePixarImages call is issued and not yet completed
\* in any reachable state of the UI.
C1_SingleOutstandingRequest == Cardinality(pending) <= 1

FixedMessages ==
  {ApiKeyMessage, QuotaMessage, BlockedMessage, NetworkMessage, GenericMessage}

\* C2: a failing generatePixarImages raises an Error carrying one of the five
\* fixed messages; for an Error thrown by the remote call the message is that
\* of the first class, in the order key/permission, quota, safety/blocked,
\* network, whose substring the lower-cased text contains, and the generic
\* message when none does or when the thrown value is no Error.
C2_ErrorClassification ==
  lastEvent.op = "generatePixarImages" /\ ~lastEvent.result.ok =>
    LET raised == lastEvent.result.thrown
        remote == lastEvent.remote
        text   == ToLowerCase(remote.thrown.message)
        key     == Includes(text, "api key not valid") \/ Includes(text, "permission denied")
        quota   == Includes(text, "quota")
        blocked == Includes(text, "safety policy") \/ Includes(text, "blocked")
        network == Includes(text, "network error") \/ Includes(text, "failed to fetch")
    IN  /\ raised.isError
        /\ raised.message \in FixedMessages
        /\ remote.kind = "throws" /\ ~remote.thrown.isError => raised.message = GenericMessage
        /\ remote.kind = "throws" /\ remote.thrown.isError =>
             /\ key => raised.message = ApiKeyMessage
             /\ ~key /\ quota => raised.message = QuotaMessage
             /\ ~key /\ ~quota /\ blocked => raised.message = BlockedMessage
             /\ ~key /\ ~quota /\ ~blocked /\ network => raised.message = NetworkMessage
             /\ ~key /\ ~quota /\ ~blocked /\ ~network => raised.message = GenericMessage

\* a text in mixed case that matches two classes, the later class written first
C2_Witness ==
  /\ lastEvent.op = "generatePixarImages"
  /\ lastEvent.remote.kind = "throws"
  /\ lastEvent.remote.thrown = ThrownError("Blocked Quota")
  /\ lastEvent.result.thrown.message = QuotaMessage

\* C3: when a handleSubmit request completes with failure, imageUrl is null,
\* error is the message of the raised error and isLoading is false; when a
\* variations request completes with failure, variations is empty,
\* variationError is the message of the raised error and
\* isGeneratingVariations is false.
C3_FailureSurfaced ==
  /\ Settled("handleSubmit") /\ ~lastEvent.result.ok =>
       /\ imageUrl = Null
       /\ error # Null
       /\ error = lastEvent.result.thrown.message
       /\ ~isLoading
  /\ Settled("handleSubmit") /\ lastEvent.result.ok /\ submitTry(lastEvent.result).threw =>
       /\ imageUrl = Null
       /\ error = InvalidImageText
       /\ ~isLoading
  /\ Settled("handleGenerateVariations") /\ ~lastEvent.result.ok =>
       /\ variations = <<>>
       /\ variationError # Null
       /\ variationError = lastEvent.result.thrown.message
       /\ ~isGeneratingVariations

C3_Witness ==
  /\ Settled("handleSubmit")
  /\ ~lastEvent.result.ok
  /\ error = NetworkMessage
  /\ imageUrl = Null
  /\ isGeneratingVariations

\* C4: after a handleSubmit request succeeds with a non-empty first image b,
\* imageUrl is 'data:image/jpeg;base64,' followed by b and
\* generatedImageAspectRatio is the aspect ratio sent with the request; after a
\* variations request succeeds with list L, variations has L's length and its
\* i-th element is 'data:image/jpeg;base64,' followed by L[i].
C4_ImagesThreaded ==
  /\ Settled("handleSubmit") /\ lastEvent.result.ok =>
       LET L == lastEvent.result.images
       IN  Len(L) > 0 /\ L[1] # "" =>
             /\ imageUrl = "data:image/jpeg;base64," \o L[1]
             /\ generatedImageAspectRatio = lastEvent.request.call.aspectRatio
  /\ Settled("handleGenerateVariations") /\ lastEvent.result.ok =>
       LET L == lastEvent.result.images
       IN  /\ Len(variations) = Len(L)
           /\ \A i \in 1..Len(L) : variations[i] = "data:image/jpeg;base64," \o L[i]

C4_Witness ==
  /\ Settled("handleGenerateVariations")
  /\ lastEvent.result.ok
  /\ lastEvent.result.images = <<"a", "", "a">>
  /\ variations = <<"data:image/jpeg;base64,a", "data:image/jpeg;base64,",
                    "data:image/jpeg;base64,a">>
  /\ imageUrl = "data:image/jpeg;base64,a"
  /\ aspectRatio # generatedImageAspectRatio

\* C5: every request issued by handleGenerateVariations carries the prompt and
\* the aspect ratio of the request that produced the image held in imageUrl.
C5_VariationRepeatsImageRequest ==
  lastEvent.op = "handleGenerateVariations" /\ lastEvent.accepted =>
    \A r \in PendingOf("handleGenerateVariations") :
      /\ r.userPrompt = imageFrom.userPrompt
      /\ r.call.aspectRatio = imageFrom.call.aspectRatio

\* C6: generatePixarImages never returns an empty list; a response without
\* generatedImages, or with none, makes it raise the generic message (not the
\* internal text); a normal return holds the response's image bytes, one per
\* returned image, in response order.
C6_NeverEmpty ==
  lastEvent.op = "generatePixarImages" =>
    LET remote == lastEvent.remote
        res    == lastEvent.result
    IN  /\ res.ok => Len(res.images) > 0
        /\ remote.kind = "response"
             /\ (~remote.hasGeneratedImages \/ Len(remote.generatedImages) = 0) =>
             /\ ~res.ok
             /\ res.thrown.isError
             /\ res.thrown.message = GenericMessage
             /\ res.thrown.message # NoImagesText
        /\ res.ok =>
             /\ remote.kind = "response"
             /\ Len(res.images) = Len(remote.generatedImages)
             /\ \A i \in 1..Len(res.images) :
                  res.images[i] = remote.generatedImages[i].imageBytes

C6_Witness ==
  /\ lastEvent.op = "generatePixarImages"
  /\ lastEvent.remote = RemoteResponse(TRUE, <<>>)
  /\ ~lastEvent.result.ok
  /\ lastEvent.result.thrown.message = GenericMessage

\* C7: the number of outbound calls equals the number of accepted user
\* actions (a failed call issues none); an accepted submit has just issued one
\* call with count 1 and the selected aspect ratio, an accepted Generate
\* Variations click one call with count 3 and generatedImageAspectRatio; every
\* call has count >= 1 and an aspect ratio in {16:9, 1:1, 9:16}.
C7_NoRetries ==
  /\ issued = accepted
  /\ \A r \in pending :
       /\ r.id <= issued
       /\ r.call.numberOfImages >= 1
       /\ r.call.aspectRatio \in {"16:9", "1:1", "9:16"}
  /\ \A r1, r2 \in pending : r1.id = r2.id => r1 = r2
  /\ lastEvent.op = "handleSubmit" /\ lastEvent.accepted =>
       \E r \in pending :
         /\ r.id = issued /\ r.handler = "handleSubmit"
         /\ r.call.numberOfImages = 1
         /\ r.call.aspectRatio = aspectRatio
  /\ lastEvent.op = "handleGenerateVariations" /\ lastEvent.accepted =>
       \E r \in pending :
         /\ r.id = issued /\ r.handler = "handleGenerateVariations"
         /\ r.call.numberOfImages = 3
         /\ r.call.aspectRatio = generatedImageAspectRatio

C7_Witness ==
  /\ Settled("handleGenerateVariations")
  /\ ~lastEvent.result.ok
  /\ issued = 2 /\ accepted = 2
  /\ pending = {}

\* C8: when the remote service answers every call, isLoading, once true,
\* becomes false again, and so does isGeneratingVariations.
C8_LoadingReleased ==
  /\ isLoading ~> ~isLoading
  /\ isGeneratingVariations ~> ~isGeneratingVariations

C8_Witness ==
  /\ Settled("handleSubmit")
  /\ ~lastEvent.result.ok
  /\ ~isLoading
  /\ ~isGeneratingVariations
  /\ issued = 3

\* C9: handleSubmit run with a blank prompt or while isLoading issues no
\* request and leaves the component state unchanged; so does
\* handleGenerateVariations run with a blank prompt, while isLoading or while
\* isGeneratingVariations.
C9_RejectedIsNoOp ==
  [][ /\ (Trim(prompt) = "" \/ isLoading) /\ lastEvent'.op = "handleSubmit" =>
           /\ ~lastEvent'.accepted
           /\ UNCHANGED <<imageUrl, variations, error, variationError, isLoading,
                          isGeneratingVariations, aspectRatio,
                          generatedImageAspectRatio, pending, issued>>
      /\ (Trim(prompt) = "" \/ isLoading \/ isGeneratingVariations)
           /\ lastEvent'.op = "handleGenerateVariations" =>
           /\ ~lastEvent'.accepted
           /\ UNCHANGED <<imageUrl, variations, error, variationError, isLoading,
                          isGeneratingVariations, aspectRatio,
                          generatedImageAspectRatio, pending, issued>>
    ]_vars

C9_Witness ==
  /\ lastEvent = [op |-> "handleSubmit", accepted |-> FALSE]
  /\ isLoading
  /\ Trim(prompt) # ""
  /\ Cardinality(pending) = 1

\* C10: whenever variations are displayed (variations non-empty and
\* isGeneratingVariations false), imageUrl is non-null and the variations come
\* from a request issued after, and with the prompt and aspect ratio of, the
\* request that produced imageUrl.
C10_VariationsBelongToImage ==
  Len(variations) > 0 /\ ~isGeneratingVariations =>
    /\ imageUrl # Null
    /\ variationsFrom.id > imageFrom.id
    /\ variationsFrom.userPrompt = imageFrom.userPrompt
    /\ variationsFrom.call.aspectRatio = imageFrom.call.aspectRatio

====
